---- MODULE Spec2Model ----
(***************************************************************************)
(* The game-state reducer of src/main.ts (the scan of fallingBlock$) and   *)
(* the pure helpers it calls: grid update, collision checks, line clear,   *)
(* compaction, scoring and the piece source.                               *)
(*                                                                         *)
(* JavaScript arrays are 0-based and TLA+ sequences 1-based: the cell the  *)
(* source writes grid[y][x] is grid[y + 1][x + 1] here, and blockShape[i]  *)
(* is blockShape[i + 1].  Coordinates (fallingBlockX, fallingBlockY,       *)
(* shapeX, shapeY, gridX, gridY) keep the source's 0-based values.         *)
(***************************************************************************)
EXTENDS Integers, Sequences, FiniteSets

(* ------------------------------ constants ------------------------------ *)

GRID_WIDTH == 10

GRID_HEIGHT == 20

\* RNG.m - 1, the divisor of RNG.scale (RNG.m = 2^31 itself is not needed).
RNG_m_minus_1 == 2147483647

\* The number of down events (key S or timer tick) delivered since Init.
MaxTicks == 20

\* The number of timer ticks delivered to a game left unattended.
MaxUnattendedTicks == 55

\* The distance between the hashes sampled across 0 .. RNG.m - 1.
HashStep == 16777216

(* ---------------------------- shape catalog ---------------------------- *)

\* Mutant of blockShape: the bar stands upright, four rows high.
blockShapeUprightBar ==
  << << <<1, 1>>, <<1, 1>> >>,
     << <<1>>, <<1>>, <<1>>, <<1>> >>,
     << <<0, 1, 1>>, <<1, 1, 0>> >>,
     << <<1, 1, 0>>, <<0, 1, 1>> >>,
     << <<1, 0, 0>>, <<1, 1, 1>> >>,
     << <<0, 0, 1>>, <<1, 1, 1>> >>,
     << <<0, 1, 0>>, <<1, 1, 1>> >> >>

blockShape ==
  << << <<1, 1>>, <<1, 1>> >>,
     << <<1, 1, 1, 1>> >>,
     << <<0, 1, 1>>, <<1, 1, 0>> >>,
     << <<1, 1, 0>>, <<0, 1, 1>> >>,
     << <<1, 0, 0>>, <<1, 1, 1>> >>,
     << <<0, 0, 1>>, <<1, 1, 1>> >>,
     << <<0, 1, 0>>, <<1, 1, 1>> >> >>

\* What blockShape[randomIndex] evaluates to when the index is past the end
\* of the catalog: JavaScript's undefined (falsy).  No catalog shape is empty.
undefined == << >>

\* A state object without the highScore property (only a lock adds it).
noHighScore == -1

(* ------------------------------ grid model ----------------------------- *)

setCubeAtCoordinates(grid, x, y, value) ==
  IF x < 0 \/ x >= GRID_WIDTH \/ y < 0 \/ y >= GRID_HEIGHT
  THEN grid
  ELSE [grid EXCEPT ![y + 1][x + 1] = value]

\* JavaScript arrays are objects: a heap is the sequence of the arrays
\* allocated so far, an address an index into it.  A row is an array of
\* numbers and a grid an array of the addresses of its rows.

\* The heap after the 2-D array grid was built, rows first; the grid object
\* is the last allocation.
heapOf(grid) == Append(grid, [gridY \in 1 .. Len(grid) |-> gridY])

\* The 2-D array an address of a grid object stands for.
valueOf(heap, grid) == [gridY \in 1 .. Len(heap[grid]) |-> heap[heap[grid][gridY]]]

\* Mutant of setCubeAtCoordinatesOnHeap: the cell is written into the row of
\* the grid passed in, which is returned.
setCubeAtCoordinatesInPlace(heap, grid, x, y, value) ==
  IF x < 0 \/ x >= GRID_WIDTH \/ y < 0 \/ y >= GRID_HEIGHT
  THEN [heap |-> heap, returned |-> grid]
  ELSE [heap |-> [heap EXCEPT ![heap[grid][y + 1]][x + 1] = value],
        returned |-> grid]

\* setCubeAtCoordinates with its allocations: [...grid[y]] and [...grid] are
\* new arrays, the rows other than y are shared with the grid passed in.
setCubeAtCoordinatesOnHeap(heap, grid, x, y, value) ==
  IF x < 0 \/ x >= GRID_WIDTH \/ y < 0 \/ y >= GRID_HEIGHT
  THEN [heap |-> heap, returned |-> grid]
  ELSE LET newRow  == [heap[heap[grid][y + 1]] EXCEPT ![x + 1] = value]
           heap1   == Append(heap, newRow)
           newGrid == [heap[grid] EXCEPT ![y + 1] = Len(heap1)]
           heap2   == Append(heap1, newGrid)
       IN  [heap |-> heap2, returned |-> Len(heap2)]

\* The expression grid[gridY][gridX] === 1 of both collision checks.  A column
\* past the row's end reads undefined, which is not 1.  A row past the grid's
\* end would raise a TypeError; it is read as "not 1" here, and no call of the
\* reducer reads one (checkCollision tests gridY >= GRID_HEIGHT first).
cellIsOne(grid, gridX, gridY) ==
  /\ gridY >= 0
  /\ gridY < Len(grid)
  /\ gridX >= 0
  /\ gridX < Len(grid[gridY + 1])
  /\ grid[gridY + 1][gridX + 1] = 1

\* The occupied cells of a shape, as (shapeX, shapeY) offsets.
cubes(shape) ==
  { c \in (0 .. 3) \X (0 .. 3) :
      /\ c[2] < Len(shape)
      /\ c[1] < Len(shape[c[2] + 1])
      /\ shape[c[2] + 1][c[1] + 1] = 1 }

\* Mutant of checkAgainstExistingBlocks: only the walls are tested.
checkAgainstExistingBlocksWallsOnly(shape, x, y, direction, grid) ==
  \E c \in cubes(shape) : x + c[1] < 0 \/ x + c[1] >= GRID_WIDTH

\* Mutant of checkAgainstExistingBlocks: the right wall is tested with > for >=.
checkAgainstExistingBlocksWall(shape, x, y, direction, grid) ==
  \E c \in cubes(shape) :
    LET gridX == x + c[1]
        gridY == y + c[2]
    IN  IF gridX < 0 \/ gridX > GRID_WIDTH
        THEN TRUE
        ELSE cellIsOne(grid, gridX, gridY)

checkAgainstExistingBlocks(shape, x, y, direction, grid) ==
  \E c \in cubes(shape) :
    LET gridX == x + c[1]
        gridY == y + c[2]
    IN  IF gridX < 0 \/ gridX >= GRID_WIDTH
        THEN TRUE
        ELSE cellIsOne(grid, gridX, gridY)

\* Mutant of checkCollision: only the floor is tested, not the grid's cells.
checkCollisionFloorOnly(shape, x, y, direction, grid) ==
  \E c \in cubes(shape) : direction = "down" /\ y + c[2] >= GRID_HEIGHT

checkCollision(shape, x, y, direction, grid) ==
  \E c \in cubes(shape) :
    LET gridX == x + c[1]
        gridY == y + c[2]
    IN  IF direction = "down"
        THEN gridY >= GRID_HEIGHT \/ cellIsOne(grid, gridX, gridY)
        ELSE FALSE

checkReachBottom(shape, y) == y + Len(shape) > GRID_HEIGHT

createGrid == [gridY \in 1 .. GRID_HEIGHT |-> [gridX \in 1 .. GRID_WIDTH |-> 0]]

\* Mutant of isRowFull: one cube in the row is enough.
isRowFullAnyCube(row) == \E i \in 1 .. Len(row) : row[i] = 1

isRowFull(row) == \A i \in 1 .. Len(row) : row[i] = 1

keepRow(row) == ~isRowFull(row)

\* Mutant of removeFullRows: only the lowest full row is deleted.
removeFullRowsLowest(grid) ==
  LET full == { gridY \in 1 .. Len(grid) : isRowFull(grid[gridY]) }
  IN  IF full = {}
      THEN grid
      ELSE LET lowest == CHOOSE gridY \in full : \A other \in full : other <= gridY
           IN  SubSeq(grid, 1, lowest - 1) \o SubSeq(grid, lowest + 1, Len(grid))

removeFullRows(grid) == SelectSeq(grid, keepRow)

\* Mutant of adjustYPositions: the empty rows are put below the kept rows.
adjustYPositionsBelow(grid, removedRowCount) ==
  LET emptyRow == [i \in 1 .. Len(grid[1]) |-> 0]
  IN  grid \o [i \in 1 .. removedRowCount |-> emptyRow]

\* Mutant of adjustYPositions: no empty rows are put back.
adjustYPositionsNoRows(grid, removedRowCount) == grid

adjustYPositions(grid, removedRowCount) ==
  LET emptyRow == [i \in 1 .. Len(grid[1]) |-> 0]
      shiftedGrid == [i \in 1 .. removedRowCount |-> emptyRow] \o grid
  IN  IF Len(shiftedGrid) <= GRID_HEIGHT
      THEN shiftedGrid
      ELSE SubSeq(shiftedGrid, 1, GRID_HEIGHT)

(* ----------------------------- piece source ---------------------------- *)

\* Math.floor(0 + (scaledValue + 1) * (range / 2)) with scaledValue =
\* RNG.scale(hash) = 2 * hash / (RNG.m - 1) - 1, i.e. the floor of
\* range * hash / (RNG.m - 1): the number of k in 1..range with
\* k * (RNG.m - 1) <= range * hash.  With q and r the quotient and remainder
\* of (RNG.m - 1) by range, that is hash - k * q >= ceil(k * r / range),
\* which stays inside 32-bit integers.
randomIndex(hash, range) ==
  LET q == RNG_m_minus_1 \div range
      r == RNG_m_minus_1 % range
  IN  Cardinality({ k \in 1 .. range :
                      hash - k * q >= (k * r + range - 1) \div range })

getRandomBlockShape(hash) ==
  LET range == Len(blockShape)
      index == randomIndex(hash, range)
  IN  IF index < range THEN blockShape[index + 1] ELSE undefined

\* Values of RNG.hash(Date.now()) the model draws from, one in each of the
\* seven index ranges: k * 2^28 maps to index k - 1.
Hashes == { k * (2 ^ 28) : k \in 1 .. 7 }

(* ------------------------------- reducer ------------------------------- *)

initialState ==
  [ gameEnd           |-> FALSE,
    fallingBlockX     |-> 4,
    fallingBlockY     |-> 0,
    fallingBlockShape |-> blockShape[3 + 1],
    grid              |-> createGrid,
    droppedBlocks     |-> << >>,
    score             |-> 0,
    level             |-> 1,
    removedRows       |-> 0,
    highScore         |-> noHighScore ]

resetGame(hash) ==
  [ gameEnd           |-> FALSE,
    fallingBlockX     |-> 4,
    fallingBlockY     |-> 0,
    fallingBlockShape |-> getRandomBlockShape(hash),
    grid              |-> createGrid,
    droppedBlocks     |-> << >>,
    score             |-> 0,
    level             |-> 1,
    removedRows       |-> 0,
    highScore         |-> noHighScore ]

\* Mutant of newFallingBlockY: a left event lifts a block that has fallen.
newFallingBlockYLeftLifts(s, direction) ==
  IF direction = "down"
  THEN s.fallingBlockY + 1
  ELSE IF direction = "left" /\ s.fallingBlockY > 0
  THEN s.fallingBlockY - 1
  ELSE s.fallingBlockY

\* Mutant of newFallingBlockY: a rotate event asks for the next row too.
newFallingBlockYOnRotate(s, direction) ==
  IF direction \in {"down", "rotate"} THEN s.fallingBlockY + 1 ELSE s.fallingBlockY

\* The candidate position of the falling block for one event.
newFallingBlockY(s, direction) ==
  IF direction = "down" THEN s.fallingBlockY + 1 ELSE s.fallingBlockY

newFallingBlockX(s, direction) ==
  IF direction = "left"
  THEN IF ~checkAgainstExistingBlocks(s.fallingBlockShape, s.fallingBlockX - 1,
                                      s.fallingBlockY, direction, s.grid)
       THEN s.fallingBlockX - 1
       ELSE s.fallingBlockX
  ELSE IF direction = "right"
  THEN IF ~checkAgainstExistingBlocks(s.fallingBlockShape, s.fallingBlockX + 1,
                                      s.fallingBlockY, direction, s.grid)
       THEN s.fallingBlockX + 1
       ELSE s.fallingBlockX
  ELSE s.fallingBlockX

\* Mutant of playing: the guard forgets !state.gameEnd.
playingIgnoresGameEnd(s) == s.fallingBlockShape # undefined

\* The reducer's second branch is taken: the game runs and there is a shape.
playing(s) == ~s.gameEnd /\ s.fallingBlockShape # undefined

\* The event takes the reducer's lock path (the else of !collision && !reachBottom).
locks(s, direction) ==
  /\ playing(s)
  /\ \/ checkCollision(s.fallingBlockShape, newFallingBlockX(s, direction),
                       newFallingBlockY(s, direction), direction, s.grid)
     \/ checkReachBottom(s.fallingBlockShape, newFallingBlockY(s, direction))

\* The nested reduce that writes the falling block's cubes into the grid.
RECURSIVE placeCubes(_, _, _, _)
placeCubes(grid, cs, x, y) ==
  IF cs = {}
  THEN grid
  ELSE LET c == CHOOSE d \in cs : TRUE
       IN  placeCubes(setCubeAtCoordinates(grid, x + c[1], y + c[2], 1),
                      cs \ {c}, x, y)

\* Mutant of newGrid: the cubes are written at the row the event asked for.
newGridAtCandidate(s) ==
  placeCubes(s.grid, cubes(s.fallingBlockShape), s.fallingBlockX, s.fallingBlockY + 1)

newGrid(s) ==
  placeCubes(s.grid, cubes(s.fallingBlockShape), s.fallingBlockX, s.fallingBlockY)

\* Mutant of scoreIncrease: the table is shifted by one row.
scoreIncreaseShifted(removedRowCount) ==
  IF removedRowCount = 0 THEN 40
  ELSE IF removedRowCount = 1 THEN 100
  ELSE IF removedRowCount = 2 THEN 300
  ELSE IF removedRowCount = 3 THEN 1200
  ELSE 0

\* Mutant of scoreIncrease: the entries for two and three rows are swapped.
scoreIncreaseSwapped(removedRowCount) ==
  IF removedRowCount = 1 THEN 40
  ELSE IF removedRowCount = 2 THEN 300
  ELSE IF removedRowCount = 3 THEN 100
  ELSE IF removedRowCount = 4 THEN 1200
  ELSE 0

scoreIncrease(removedRowCount) ==
  IF removedRowCount = 1 THEN 40
  ELSE IF removedRowCount = 2 THEN 100
  ELSE IF removedRowCount = 3 THEN 300
  ELSE IF removedRowCount = 4 THEN 1200
  ELSE 0

newScore(score, removedRowCount, level) ==
  score + scoreIncrease(removedRowCount) * level

\* Mutant of newLevel: the two floors of levelIncrease are swapped.
newLevelSwapped(level, removedRows, totalRemovedRows) ==
  level + ((removedRows \div 5) - (totalRemovedRows \div 5))

\* Mutant of newLevel: the rows of this lock alone are divided by 5.
newLevelPerLock(level, removedRows, totalRemovedRows) ==
  level + ((totalRemovedRows - removedRows) \div 5)

newLevel(level, removedRows, totalRemovedRows) ==
  level + ((totalRemovedRows \div 5) - (removedRows \div 5))

\* Mutant of newGameEnd: row 1 is tested instead of row 0.
newGameEndSecondRow(updatedGrid) ==
  \E i \in 1 .. Len(updatedGrid[2]) : updatedGrid[2][i] = 1

newGameEnd(updatedGrid) == \E i \in 1 .. Len(updatedGrid[1]) : updatedGrid[1][i] = 1

\* The state the lock path returns.
lockBlock(s, hash) ==
  LET newDroppedBlock  == [ x     |-> s.fallingBlockX,
                            y     |-> s.fallingBlockY,
                            shape |-> s.fallingBlockShape ]
      mergedGrid       == newGrid(s)
      removedRowGrid   == removeFullRows(mergedGrid)
      removedRowCount  == Len(mergedGrid) - Len(removedRowGrid)
      updatedGrid      == adjustYPositions(removedRowGrid, removedRowCount)
      lockScore        == newScore(s.score, removedRowCount, s.level)
      totalRemovedRows == s.removedRows + removedRowCount
  IN  [ gameEnd           |-> newGameEnd(updatedGrid),
        grid              |-> updatedGrid,
        fallingBlockShape |-> getRandomBlockShape(hash),
        fallingBlockY     |-> 0,
        fallingBlockX     |-> 4,
        droppedBlocks     |-> Append(s.droppedBlocks, newDroppedBlock),
        score             |-> lockScore,
        level             |-> newLevel(s.level, s.removedRows, totalRemovedRows),
        removedRows       |-> totalRemovedRows,
        highScore         |-> lockScore ]

\* Mutant of moveBlock: a down event commits the row below the candidate,
\* which no check has seen.
moveBlockPastCandidate(s, direction) ==
  [s EXCEPT !.fallingBlockY = newFallingBlockY(s, direction)
                                + (IF direction = "down" THEN 1 ELSE 0),
            !.fallingBlockX = newFallingBlockX(s, direction)]

\* The state the free-fall path returns.
moveBlock(s, direction) ==
  [s EXCEPT !.fallingBlockY = newFallingBlockY(s, direction),
            !.fallingBlockX = newFallingBlockX(s, direction)]

\* Mutant of resets: the branch forgets the test of direction.
resetsOnAnyValue(s, direction) == s.gameEnd

\* Mutant of resets: the branch tests the tag of space$ instead of " ".
resetsOnRestartTag(s, direction) == s.gameEnd /\ direction = "restart"

\* The event resets the game (the reducer's first branch).
resets(s, direction) == s.gameEnd /\ direction = " "

\* One application of the scan's reducer to an event; hash is the value
\* RNG.hash(Date.now()) takes if the reducer draws a shape.
reducer(s, direction, hash) ==
  IF resets(s, direction)
  THEN resetGame(hash)
  ELSE IF playing(s)
  THEN IF ~locks(s, direction)
       THEN moveBlock(s, direction)
       ELSE lockBlock(s, hash)
  ELSE s

(* -------------------------- positions of play -------------------------- *)

\* The hash the model draws for catalog index i (0-based).
hashOf(i) == (i + 1) * (2 ^ 28)

\* The reducer applied to n left events (dx = -n) or n right events (dx = n).
RECURSIVE shift(_, _)
shift(s, dx) ==
  IF dx = 0 THEN s
  ELSE IF dx < 0 THEN shift(reducer(s, "left", hashOf(0)), dx + 1)
  ELSE shift(reducer(s, "right", hashOf(0)), dx - 1)

\* The reducer applied to down events up to and including the one that locks.
RECURSIVE drop(_, _)
drop(s, hash) ==
  IF ~playing(s) THEN s
  ELSE IF locks(s, "down") THEN reducer(s, "down", hash)
  ELSE drop(reducer(s, "down", hash), hash)

\* The reducer applied to the events of a script: each entry <<dx, i>> shifts
\* the falling block by dx columns and drops it, and the lock draws shape i.
\* Events after the game has ended change nothing, so the script stops there.
RECURSIVE play(_, _)
play(s, script) ==
  IF script = << >> \/ ~playing(s) THEN s
  ELSE play(drop(shift(s, script[1][1]), hashOf(script[1][2])), Tail(script))

\* The first game, lost: the initial block and nine squares dropped where they
\* spawn pile up to row 0.
gameOver0 == play(initialState, [n \in 1 .. 10 |-> <<0, 0>>])

\* A fresh game after the first one, with catalog shape i falling.
fresh(i) == reducer(gameOver0, " ", hashOf(i))

\* Row 19 occupied in columns 0..7 (two bars), shape i falling.
oneRow(i) == play(fresh(1), << <<-4, 1>>, <<0, i>> >>)

\* Rows 18 and 19 occupied in columns 0..7 (four squares), shape i falling.
fourSquares(i) == << <<-4, 0>>, <<-2, 0>>, <<0, 0>>, <<2, i>> >>

twoRows(i) == play(fresh(0), fourSquares(i))

\* Two rows cleared twice: removedRows = 4, score = 200, level 1, empty grid.
cleared4 ==
  play(twoRows(0), << <<4, 0>> >> \o fourSquares(0) \o << <<4, 0>> >>)

\* As twoRows, one lock before removedRows passes 5.
crossing(i) == play(cleared4, fourSquares(i))

\* Level 2 (removedRows = 6) with row 19 occupied in columns 0..7.
level2(i) == play(crossing(0), << <<4, 1>>, <<-4, 1>>, <<0, i>> >>)

\* Columns 4 and 5 piled up to row 2 (nine squares), score 200, shape i falling.
nearTop(i) == play(cleared4, [n \in 1 .. 9 |-> <<0, IF n = 9 THEN i ELSE 0>>])

\* The shapes the prepared positions have falling: the square, which fits the
\* two free columns, and one shape that does not.
Falling == {0, 6}

\* The positions the model starts from: the state after construction and
\* positions the reducer reaches from it by the scripts above.
Positions ==
  {initialState}
    \cup { oneRow(i) : i \in Falling }
    \cup { twoRows(i) : i \in Falling }
    \cup { crossing(i) : i \in Falling }
    \cup { level2(i) : i \in Falling }
    \cup { nearTop(i) : i \in {0, 1} }

(* ------------------------------ the system ----------------------------- *)

VARIABLES
  state,   \* the accumulator of the scan of fallingBlock$
  ticks,   \* the number of down events delivered so far
  call     \* a helper called on its own (see the helper calls below)

vars == <<state, ticks, call>>

\* No helper is called on its own while the game runs.
noCall == [helper |-> "none"]

Init ==
  /\ state \in Positions
  /\ ticks = 0
  /\ call = noCall

\* The reducer consults the piece source for this event.
draws(s, direction) == resets(s, direction) \/ locks(s, direction)

\* The scan delivers one event to the reducer.
Deliver(direction) ==
  \E hash \in (IF draws(state, direction) THEN Hashes ELSE {hashOf(0)}) :
    /\ state' = reducer(state, direction, hash)
    /\ call' = call

\* left$: keypress KeyA.
Left == Deliver("left") /\ ticks' = ticks

\* right$: keypress KeyD.
Right == Deliver("right") /\ ticks' = ticks

\* down$: keypress KeyS.
Down == ticks < MaxTicks /\ Deliver("down") /\ ticks' = ticks + 1

\* tickdown$: the interval timer, mapped to "down".
Tick == ticks < MaxTicks /\ Deliver("down") /\ ticks' = ticks + 1

\* rotate$: keypress KeyW.
Rotate == Deliver("rotate") /\ ticks' = ticks

\* space$: keypress Space, mapped to "restart".
Restart == Deliver("restart") /\ ticks' = ticks

\* spaceBarPress$: keydown of the space bar, mapped to " ".
SpaceBar == Deliver(" ") /\ ticks' = ticks

Next == Left \/ Right \/ Down \/ Tick \/ Rotate \/ Restart \/ SpaceBar

Spec == Init /\ [][Next]_vars

\* The positions the blocks have farthest to fall from: the empty grid with
\* the first block of the game and with the bar, which is one row high and
\* comes to rest in the last row, and the grids with one and two rows begun.
LivePositions ==
  {initialState, fresh(1)}
    \cup { oneRow(i) : i \in Falling }
    \cup { twoRows(i) : i \in Falling }

LiveInit ==
  /\ state \in LivePositions
  /\ ticks = 0
  /\ call = noCall

\* tick$ is an interval timer that never stops: as long as the model lets a
\* tick be delivered (ticks < MaxTicks), one is.  Keys may or may not be
\* pressed.
LiveSpec == LiveInit /\ [][Next]_vars /\ WF_vars(Tick)

(* --------------------------- the game unattended ----------------------- *)

\* Columns 0..3 and 8, 9 piled up to row 2 and columns 4, 5 up to row 4 (35
\* squares), columns 6 and 7 empty, shape i falling: a bar left to fall goes
\* down to row 3 and fills it.
brim(i) ==
  play(fresh(0),
       [n \in 1 .. 35 |->
          <<IF n <= 9 THEN -4 ELSE IF n <= 18 THEN -2 ELSE IF n <= 27 THEN 4 ELSE 0,
            IF n = 35 THEN i ELSE 0>>])

\* The columns the player has moved the falling block by when the keys are
\* let go.
Moves == {-4, -1, 0, 2}

\* Running games with the pile close to the top, any shape falling, moved by
\* the player or not.
UnattendedPositions ==
  { shift(position, dx) :
      position \in { nearTop(i) : i \in 0 .. Len(blockShape) - 1 }
                     \cup { brim(i) : i \in 0 .. Len(blockShape) - 1 },
      dx \in Moves }

UnattendedInit ==
  /\ state \in UnattendedPositions
  /\ ticks = 0
  /\ call = noCall

\* tickdown$ with no key pressed: the timer's "down" is the only event.
UnattendedTick ==
  /\ ticks < MaxUnattendedTicks
  /\ Deliver("down")
  /\ ticks' = ticks + 1

UnattendedNext == UnattendedTick

\* The interval timer never stops.
UnattendedSpec == UnattendedInit /\ [][UnattendedNext]_vars /\ WF_vars(UnattendedTick)

(* ----------------------------- helper calls ---------------------------- *)

\* The pure helpers are also checked called on their own, on arguments the
\* reducer never passes them: call holds the arguments and, once the helper
\* has returned, what it returned (returned is empty until then).

\* The grids the calls are made on: those of the positions of play.
Grids == { s.grid : s \in Positions }

\* The coordinates, one past each edge of the grid included.
Xs == -1 .. GRID_WIDTH

Ys == -1 .. GRID_HEIGHT

SetCubeCalls ==
  { [helper |-> "setCubeAtCoordinates", heap |-> heapOf(grid), grid |-> Len(grid) + 1,
     x |-> x, y |-> y, value |-> value, returned |-> << >>] :
      grid \in Grids, x \in Xs, y \in Ys, value \in {0, 1} }

\* The hashes getRandomBlockShape is called with: the values of (a * seed + c)
\* % m run over 0 .. RNG.m - 1; sampled are both ends, the last hash of each
\* index and the first of the next, and every HashStep-th hash between.
HashEdges ==
  LET q == RNG_m_minus_1 \div Len(blockShape)
  IN  {0} \cup UNION { {k * q, k * q + 1} : k \in 1 .. Len(blockShape) }

HashSamples ==
  HashEdges \cup { k * HashStep : k \in 0 .. (RNG_m_minus_1 \div HashStep) }

GetRandomBlockShapeCalls ==
  { [helper |-> "getRandomBlockShape", hash |-> hash, returned |-> << >>] :
      hash \in HashSamples }

CallInit ==
  /\ state = initialState
  /\ ticks = 0
  /\ call \in SetCubeCalls \cup GetRandomBlockShapeCalls

\* setCubeAtCoordinates(grid, x, y, value) runs and returns.
SetCube ==
  /\ call.helper = "setCubeAtCoordinates"
  /\ call.returned = << >>
  /\ LET r == setCubeAtCoordinatesOnHeap(call.heap, call.grid, call.x, call.y, call.value)
     IN  call' = [call EXCEPT !.heap = r.heap, !.returned = <<r.returned>>]
  /\ UNCHANGED <<state, ticks>>

\* getRandomBlockShape() runs with RNG.hash(Date.now()) = call.hash and returns.
GetRandomBlockShape ==
  /\ call.helper = "getRandomBlockShape"
  /\ call.returned = << >>
  /\ call' = [call EXCEPT !.returned = <<getRandomBlockShape(call.hash)>>]
  /\ UNCHANGED <<state, ticks>>

CallNext == SetCube \/ GetRandomBlockShape

CallSpec == CallInit /\ [][CallNext]_vars

(* ------------------------------ properties ----------------------------- *)

\* The states the scan can hold after one event delivered in state s (the
\* successors of s by Deliver).
after(s, direction) ==
  { reducer(s, direction, hash) :
      hash \in (IF draws(s, direction) THEN Hashes ELSE {hashOf(0)}) }

\* The occupied cells of a grid, as 0-based (x, y) pairs.
occupied(grid) ==
  { c \in (0 .. GRID_WIDTH - 1) \X (0 .. GRID_HEIGHT - 1) :
      /\ c[2] < Len(grid)
      /\ c[1] < Len(grid[c[2] + 1])
      /\ grid[c[2] + 1][c[1] + 1] = 1 }

\* The cells the falling block of s covers, as 0-based (x, y) pairs.
covered(s) ==
  { <<s.fallingBlockX + c[1], s.fallingBlockY + c[2]>> : c \in cubes(s.fallingBlockShape) }

catalog == { blockShape[i] : i \in 1 .. Len(blockShape) }

\* A fresh initial state: running, all counters at their start, nothing on the
\* grid, nothing logged, a catalog shape at the spawn anchor.
isFresh(s) ==
  /\ s.gameEnd = FALSE
  /\ s.score = 0
  /\ s.removedRows = 0
  /\ s.level = 1
  /\ Len(s.grid) = GRID_HEIGHT
  /\ occupied(s.grid) = {}
  /\ s.droppedBlocks = << >>
  /\ s.fallingBlockX = 4
  /\ s.fallingBlockY = 0
  /\ s.fallingBlockShape \in catalog

\* C1: once the game has ended, a left, right, down (key or timer tick) or
\* rotate event leaves the state as it is, in every field.
TerminalAbsorption ==
  state.gameEnd =>
    \A direction \in {"left", "right", "down", "rotate"} :
      after(state, direction) = {state}

\* C1 witness: the game lost by dropping the square of nearTop(0) where it
\* spawned (the first down event), unchanged after two more down events.
TerminalAbsorptionWitness ==
  /\ state = drop(nearTop(0), hashOf(0))
  /\ state.gameEnd
  /\ ticks >= 3

\* C2 as stated: once the game has ended, the event tagged "restart" yields a
\* fresh initial state.
RestartTagResets ==
  state.gameEnd => \A s \in after(state, "restart") : isFresh(s)

\* C2 amended: once the game has ended, the event " " of spaceBarPress$ yields
\* a fresh initial state.
SpaceBarResets ==
  state.gameEnd => \A s \in after(state, " ") : isFresh(s)

\* C2 witness: a fresh state that only a reset produces (the state after
\* construction has the Z shape falling).
SpaceBarResetsWitness ==
  /\ isFresh(state)
  /\ state.fallingBlockShape = blockShape[0 + 1]
  /\ state.highScore = noHighScore

\* C3: the grid always has GRID_HEIGHT rows of GRID_WIDTH cells, each 0 or 1.
GridShape ==
  /\ Len(state.grid) = GRID_HEIGHT
  /\ \A y \in 1 .. Len(state.grid) :
       /\ Len(state.grid[y]) = GRID_WIDTH
       /\ \A x \in 1 .. Len(state.grid[y]) : state.grid[y][x] \in {0, 1}

\* C3 witness: a lock has removed the full bottom row and the row above it,
\* which held the top of a square in columns 8 and 9, is now the bottom row.
GridShapeWitness ==
  /\ state.removedRows = 1
  /\ occupied(state.grid) = {<<8, 19>>, <<9, 19>>}

\* C4 (stated for running games, where the falling block is drawn; a violation
\* there is one of the claim, which speaks of every reachable state): no cell
\* the falling block covers is an occupied cell of the grid.
NoOverlap ==
  ~state.gameEnd => covered(state) \cap occupied(state.grid) = {}

\* C5: every cell the falling block covers lies in a column of the grid.
HorizontalBounds ==
  \A c \in covered(state) : 0 <= c[1] /\ c[1] < GRID_WIDTH

\* C5 witness: the bar, the widest shape, one row down and against the right
\* wall, where right events moved it.
HorizontalBoundsWitness ==
  /\ ~state.gameEnd
  /\ state.fallingBlockShape = blockShape[1 + 1]
  /\ state.fallingBlockX + 4 = GRID_WIDTH
  /\ state.fallingBlockY > 0

\* C6: the game has ended exactly when the top row of the grid holds an
\* occupied cell.
GameOverCondition ==
  state.gameEnd <=> (\E c \in occupied(state.grid) : c[2] = 0)

\* C6 witness: a lock has ended a game in which rows had been removed.
GameOverConditionWitness ==
  /\ state.gameEnd
  /\ state.score = 200
  /\ \E c \in occupied(state.grid) : c[2] = 0

\* C7: level = 1 + floor(removedRows / 5).
LevelFunction == state.level = 1 + (state.removedRows \div 5)

\* C7 witness: the lock that takes removedRows from 4 to 6 (the fifteenth lock
\* of the game started by crossing) has raised the level to 2.
LevelFunctionWitness ==
  /\ state.removedRows = 6
  /\ state.level = 2
  /\ Len(state.droppedBlocks) = 15
  /\ ticks > 0

\* A step of the reducer that locked the falling block: the log grew by one.
lockStep == Len(state'.droppedBlocks) = Len(state.droppedBlocks) + 1

\* A step of the reducer that reset a game that had ended.
resetStep == state.gameEnd /\ ~state'.gameEnd

\* The rows that are full once the falling block of s is written into the grid.
fullRowsAfterMerge(s) ==
  { y \in 0 .. GRID_HEIGHT - 1 :
      \A x \in 0 .. GRID_WIDTH - 1 : <<x, y>> \in occupied(s.grid) \cup covered(s) }

scoreTable == <<0, 40, 100, 300, 1200>>

\* What C8 says of a lock: k full rows, k in 0..4, add scoreTable[k] times the
\* level held before the lock to score, and k to removedRows.
lockScores ==
  LET k == Cardinality(fullRowsAfterMerge(state))
  IN  /\ k \in 0 .. 4
      /\ state'.score = state.score + scoreTable[k + 1] * state.level
      /\ state'.removedRows = state.removedRows + k

countersUnchanged ==
  /\ state'.score = state.score
  /\ state'.removedRows = state.removedRows

\* C8 as stated: a lock scores by the table, and no other transition changes
\* score or removedRows.
ScoringTable ==
  [][IF lockStep THEN lockScores ELSE countersUnchanged]_vars

\* C8 amended: a lock scores by the table, and no other transition than the
\* reset of a game that has ended changes score or removedRows.
ScoringTableExceptReset ==
  [][IF lockStep THEN lockScores ELSE resetStep \/ countersUnchanged]_vars

\* C8 witness: the lock that removed two rows at level 1 and raised the level
\* to 2 has added 100 times 1 to the score of 200.
ScoringTableWitness ==
  /\ state.score = 300
  /\ state.removedRows = 6
  /\ state.level = 2
  /\ Len(state.droppedBlocks) = 15

\* C9: no transition other than the reset of a game that has ended lowers
\* score, removedRows or level.
MonotonicCounters ==
  [][resetStep \/ (/\ state'.score >= state.score
                   /\ state'.removedRows >= state.removedRows
                   /\ state'.level >= state.level)]_vars

\* C9 witness: a lock at level 2 has removed one row: score 300 + 40 * 2.
MonotonicCountersWitness ==
  /\ state.score = 380
  /\ state.removedRows = 7
  /\ state.level = 2

\* The start of the simple-lock scenario: a running game, empty grid, score 0,
\* level 1, the square at (4, 18).
simpleLockStart(s) ==
  /\ ~s.gameEnd
  /\ s.fallingBlockX = 4
  /\ s.fallingBlockY = 18
  /\ s.fallingBlockShape = blockShape[0 + 1]
  /\ s.score = 0
  /\ s.level = 1
  /\ occupied(s.grid) = {}

\* A down event (key or timer tick) was delivered.
downStep == ticks' = ticks + 1

\* C10 as stated, its first half: from the scenario's start the first down
\* event moves the square to y = 19 without locking it.
SimpleLockFirstDownMoves ==
  [][(downStep /\ simpleLockStart(state)) =>
       /\ state'.fallingBlockY = 19
       /\ state'.grid = state.grid
       /\ state'.droppedBlocks = state.droppedBlocks]_vars

\* The grid, counters and falling block the scenario ends with.
simpleLockEnd(s) ==
  /\ ~s.gameEnd
  /\ occupied(s.grid) = {<<4, 18>>, <<5, 18>>, <<4, 19>>, <<5, 19>>}
  /\ s.score = 0
  /\ s.level = 1
  /\ s.removedRows = 0
  /\ s.fallingBlockX = 4
  /\ s.fallingBlockY = 0
  /\ s.fallingBlockShape \in catalog

\* C10 amended: from the scenario's start the first down event locks the
\* square: rows 18 and 19 have columns 4 and 5 set and no other cell is set,
\* score stays 0, level stays 1, and a new falling block is at (4, 0).
SimpleLockFirstDownLocks ==
  [][(downStep /\ simpleLockStart(state)) =>
       /\ simpleLockEnd(state')
       /\ state'.droppedBlocks =
            Append(state.droppedBlocks,
                   [x |-> 4, y |-> 18, shape |-> blockShape[0 + 1]])]_vars

\* C10 witness: the scenario's end, reached by the one lock of a fresh game.
SimpleLockWitness ==
  /\ simpleLockEnd(state)
  /\ state.droppedBlocks = <<[x |-> 4, y |-> 18, shape |-> blockShape[0 + 1]]>>

\* The occupied cells of the grid of s with its falling block written in.
mergedCells(s) == occupied(s.grid) \cup covered(s)

\* The merged cells of the rows that are not full, each moved down by the
\* number of full rows below it.
compacted(s) ==
  LET full == fullRowsAfterMerge(s)
  IN  { <<c[1], c[2] + Cardinality({ y \in full : y > c[2] })>> :
          c \in { m \in mergedCells(s) : m[2] \notin full } }

\* C11: a lock that finds k full rows in the merged grid leaves k empty rows
\* on top, followed by the rows that were not full in their order: every
\* surviving row has moved down by the number of full rows below it.
LineClearCompaction ==
  [][lockStep =>
       LET k == Cardinality(fullRowsAfterMerge(state))
       IN  /\ Len(state'.grid) = GRID_HEIGHT
           /\ \A c \in occupied(state'.grid) : c[2] >= k
           /\ occupied(state'.grid) = compacted(state)]_vars

\* C11 witness: at level 2 a square locked in columns 8 and 9 filled row 19
\* alone; its upper half has moved from row 18 down to row 19.
LineClearCompactionWitness ==
  /\ state.removedRows = 7
  /\ Len(state.droppedBlocks) = 18
  /\ occupied(state.grid) = {<<8, 19>>, <<9, 19>>}

\* A step in which setCubeAtCoordinates returned.
setCubeStep ==
  /\ call.helper = "setCubeAtCoordinates"
  /\ call.returned = << >>
  /\ call'.returned # << >>

\* (x, y) lies in [0, GRID_WIDTH) x [0, GRID_HEIGHT).
insideGrid(x, y) == x \in 0 .. GRID_WIDTH - 1 /\ y \in 0 .. GRID_HEIGHT - 1

\* C12: for (x, y) outside the grid setCubeAtCoordinates returns a grid equal
\* to the one passed in; for (x, y) inside, the returned grid has the given
\* value in cell (x, y) and the passed grid's value in every other cell; and
\* no array that existed before the call has changed, so the grid passed in
\* still reads as before.  The returned grid is the one the reducer's merge
\* takes it to be.
SetCubeBounds ==
  [][setCubeStep =>
       LET input  == valueOf(call.heap, call.grid)
           result == valueOf(call'.heap, call'.returned[1])
       IN  /\ ~insideGrid(call.x, call.y) => result = input
           /\ insideGrid(call.x, call.y) =>
                /\ Len(result) = Len(input)
                /\ \A gridY \in 1 .. Len(input) :
                     /\ Len(result[gridY]) = Len(input[gridY])
                     /\ \A gridX \in 1 .. Len(input[gridY]) :
                          result[gridY][gridX] =
                            IF gridX = call.x + 1 /\ gridY = call.y + 1
                            THEN call.value
                            ELSE input[gridY][gridX]
           /\ \A a \in 1 .. Len(call.heap) : call'.heap[a] = call.heap[a]
           /\ valueOf(call'.heap, call.grid) = input
           /\ result = setCubeAtCoordinates(input, call.x, call.y, call.value)]_vars

\* C12 witness: the call wrote 1 into the empty bottom right cell of a grid
\* with occupied cells: the returned grid has it, the grid passed in has not.
SetCubeBoundsWitness ==
  /\ call.helper = "setCubeAtCoordinates"
  /\ call.returned # << >>
  /\ call.x = GRID_WIDTH - 1
  /\ call.y = GRID_HEIGHT - 1
  /\ call.value = 1
  /\ valueOf(call.heap, call.returned[1])[GRID_HEIGHT][GRID_WIDTH] = 1
  /\ valueOf(call.heap, call.grid)[GRID_HEIGHT][GRID_WIDTH] = 0
  /\ occupied(valueOf(call.heap, call.grid)) # {}

\* The falling block of s can go one row down: none of its cells, placed at
\* (x, y + 1), has a row past the grid's last or lies on an occupied cell, and
\* y + 1 + the shape's height does not pass GRID_HEIGHT.
canStepDown(s) ==
  /\ \A c \in cubes(s.fallingBlockShape) :
       /\ s.fallingBlockY + 1 + c[2] < GRID_HEIGHT
       /\ <<s.fallingBlockX + c[1], s.fallingBlockY + 1 + c[2]>> \notin occupied(s.grid)
  /\ s.fallingBlockY + 1 + Len(s.fallingBlockShape) <= GRID_HEIGHT

\* The record a lock logs for the falling block of s.
lockRecord(s) ==
  [x |-> s.fallingBlockX, y |-> s.fallingBlockY, shape |-> s.fallingBlockShape]

\* C13: a down event (key or timer tick) in a running game moves the falling
\* block to y + 1 and changes nothing else if the block can go one row down,
\* and locks it at (x, y) otherwise; y never grows by more than one.
DownStep ==
  [][(downStep /\ playing(state)) =>
       /\ IF canStepDown(state)
          THEN state' = [state EXCEPT !.fallingBlockY = state.fallingBlockY + 1]
          ELSE /\ lockStep
               /\ state'.droppedBlocks = Append(state.droppedBlocks, lockRecord(state))
               /\ covered(state) \subseteq mergedCells(state)
               /\ occupied(state'.grid) = compacted(state)
       /\ state'.fallingBlockY <= state.fallingBlockY + 1]_vars

\* C13 witness: the square went down to row 17, onto the bars of row 19, the
\* next down event locked it there, and one more moved the new block to y = 1.
DownStepWitness ==
  /\ Len(state.droppedBlocks) = 3
  /\ state.droppedBlocks[3] = [x |-> 4, y |-> 17, shape |-> blockShape[0 + 1]]
  /\ ~state.gameEnd
  /\ state.fallingBlockY = 1

\* The falling block of s fits at column x in its current rows: each of its
\* cells is in a column of the grid and on a cell that is not 1.
fitsAtColumn(s, x) ==
  \A c \in cubes(s.fallingBlockShape) :
    /\ x + c[1] \in 0 .. GRID_WIDTH - 1
    /\ s.grid[s.fallingBlockY + c[2] + 1][x + c[1] + 1] # 1

\* What C14 says of an event that asks for a move by dx columns.
movesBy(s, direction, dx) ==
  \A t \in after(s, direction) :
    t.fallingBlockX = IF fitsAtColumn(s, s.fallingBlockX + dx)
                      THEN s.fallingBlockX + dx
                      ELSE s.fallingBlockX

\* C14: in a running game a left (right) event moves the falling block to
\* x - 1 (x + 1) exactly when it fits there in its current rows, and leaves x
\* as it is otherwise.
HorizontalVeto ==
  playing(state) =>
    /\ movesBy(state, "left", -1)
    /\ movesBy(state, "right", 1)

\* C14 witness: left events moved the square to column 2 and a down event to
\* row 1, beside the pile of columns 4 and 5; a right event is refused there,
\* by an occupied cell and not by a wall.
HorizontalVetoWitness ==
  /\ playing(state)
  /\ state.fallingBlockShape = blockShape[0 + 1]
  /\ state.fallingBlockX = 2
  /\ state.fallingBlockY = 1
  /\ <<4, 2>> \in occupied(state.grid)
  /\ after(state, "right") = {state}
  /\ \A t \in after(state, "left") : t.fallingBlockX = 1

\* C15: in a running game a left or right event changes at most x, and a
\* rotate event, a "restart" event and a " " event change nothing: none of
\* them locks the falling block, whatever the piece source would draw.
OnlyDownLocks ==
  playing(state) =>
    /\ \A direction \in {"left", "right"} :
         \A t \in after(state, direction) :
           [t EXCEPT !.fallingBlockX = state.fallingBlockX] = state
    /\ \A direction \in {"rotate", "restart", " "} :
         after(state, direction) = {state}

\* C15 witness: the first block of the game resting on the floor, where the
\* next down event locks it, one column left of where it spawned: the left
\* event that moved it there did not lock it.
OnlyDownLocksWitness ==
  /\ state = [initialState EXCEPT !.fallingBlockX = 3, !.fallingBlockY = 18]
  /\ locks(state, "down")
  /\ \A t \in after(state, "left") : t = [state EXCEPT !.fallingBlockX = 2]

\* C16: on every lock the grid the full rows are then removed from is the
\* grid before the event with the cells of the falling block, at the position
\* it held before the event, set to 1 and every other cell as it was; all of
\* the block's cells are among them; and the log gets one record more, of
\* that position and shape, after the records it had.
LockMerge ==
  [][lockStep =>
       LET merged == newGrid(state)
       IN  /\ Len(merged) = Len(state.grid)
           /\ \A gridY \in 1 .. Len(merged) :
                /\ Len(merged[gridY]) = Len(state.grid[gridY])
                /\ \A gridX \in 1 .. Len(merged[gridY]) :
                     merged[gridY][gridX] =
                       IF <<gridX - 1, gridY - 1>> \in covered(state)
                       THEN 1
                       ELSE state.grid[gridY][gridX]
           /\ covered(state) \subseteq occupied(merged)
           /\ state'.grid = adjustYPositions(removeFullRows(merged),
                                             Cardinality(fullRowsAfterMerge(state)))
           /\ state'.droppedBlocks = Append(state.droppedBlocks, lockRecord(state))]_vars

\* C16 witness: the first block of the game, moved one column left and locked
\* on the floor: its four cells are the grid's occupied cells and its record,
\* with the position it held before the locking event, is the log.
LockMergeWitness ==
  /\ state.droppedBlocks = <<[x |-> 3, y |-> 18, shape |-> blockShape[3 + 1]]>>
  /\ occupied(state.grid) = {<<3, 18>>, <<4, 18>>, <<4, 19>>, <<5, 19>>}

\* getRandomBlockShape has returned.
shapeReturned == call.helper = "getRandomBlockShape" /\ call.returned # << >>

PieceSourceInCatalogBelowMax ==
  shapeReturned =>
    IF call.hash < RNG_m_minus_1
    THEN /\ randomIndex(call.hash, Len(blockShape)) \in 0 .. Len(blockShape) - 1
         /\ call.returned[1] = blockShape[randomIndex(call.hash, Len(blockShape)) + 1]
    ELSE /\ randomIndex(call.hash, Len(blockShape)) = Len(blockShape)
         /\ call.returned[1] = undefined

\* The values the streams merged into the scan emit.
directions == {"left", "right", "down", "rotate", "restart", " "}

\* C18: once the game has ended, the event " " of the space keydown stream
\* yields a fresh game and every other value, "restart" of the Space keypress
\* stream among them, leaves the state as it is.
ResetDispatch ==
  state.gameEnd =>
    \A direction \in directions :
      IF direction = " "
      THEN \A t \in after(state, direction) : isFresh(t) /\ t # state
      ELSE after(state, direction) = {state}

\* C18 witness: a game that ended on a down event of this run was reset: the
\* fresh game has the T shape falling, which the state after construction
\* has not.
ResetDispatchWitness ==
  /\ isFresh(state)
  /\ state.fallingBlockShape = blockShape[6 + 1]
  /\ ticks > 0

\* C19: the falling block is never above the grid's first row nor below its
\* last: fallingBlockY >= 0 and fallingBlockY + the shape's number of rows
\* <= GRID_HEIGHT, so each cell a lock writes is a cell of the grid.
VerticalContainment ==
  /\ state.fallingBlockY >= 0
  /\ state.fallingBlockY + Len(state.fallingBlockShape) <= GRID_HEIGHT
  /\ \A c \in covered(state) : insideGrid(c[1], c[2])

\* C19 witness: the bar, one row high, has fallen to the grid's last row
\* beside the pile of columns 4 and 5.
VerticalContainmentWitness ==
  /\ playing(state)
  /\ state.fallingBlockShape = blockShape[1 + 1]
  /\ state.fallingBlockY + 1 = GRID_HEIGHT
  /\ ticks >= GRID_HEIGHT - 1

\* C20: no row of the grid has all its GRID_WIDTH cells equal to 1.
NoFullRow ==
  \A gridY \in 1 .. Len(state.grid) :
    \E gridX \in 1 .. GRID_WIDTH : state.grid[gridY][gridX] # 1

\* C20 witness: the fifth square of a game filled rows 18 and 19 together;
\* the lock removed both and left the grid empty.
NoFullRowWitness ==
  /\ state.removedRows = 2
  /\ Len(state.droppedBlocks) = 5
  /\ state.droppedBlocks[5] = [x |-> 8, y |-> 18, shape |-> blockShape[0 + 1]]
  /\ occupied(state.grid) = {}

\* The falling shape of s is one of the seven of the catalog, which are at
\* most two rows high.
baseShapeFalling(s) ==
  /\ s.fallingBlockShape \in catalog
  /\ Len(s.fallingBlockShape) <= 2

\* What C21 says of a lock: it removes 0, 1 or 2 rows, adds 0, 40 or 100 times
\* the level held before it to score, and raises level by at most 1.
atMostTwoRows ==
  LET k == state'.removedRows - state.removedRows
  IN  /\ k \in {0, 1, 2}
      /\ k = Cardinality(fullRowsAfterMerge(state))
      /\ state'.score - state.score = <<0, 40, 100>>[k + 1] * state.level
      /\ state'.level - state.level \in {0, 1}

\* C21: the falling shape is always one of the seven base shapes, at most two
\* rows high, and every lock removes at most two rows: the score grows by 0,
\* 40 x level or 100 x level and level by at most 1.
AtMostTwoRowsPerLock ==
  /\ [] baseShapeFalling(state)
  /\ [][lockStep => atMostTwoRows]_vars

\* C21 witness: a lock at level 1 removed two rows at once and added 100 to a
\* score of 0.
AtMostTwoRowsWitness ==
  /\ baseShapeFalling(state)
  /\ state.removedRows = 2
  /\ state.score = 100
  /\ state.highScore = 100
  /\ state.level = 1

\* y changes only by a down event that does not lock, which adds 1 to it, by
\* a lock and by a reset.
fallsByOne ==
  (~lockStep /\ ~resetStep) =>
    state'.fallingBlockY =
      IF downStep /\ playing(state)
      THEN state.fallingBlockY + 1
      ELSE state.fallingBlockY

\* A block is at y = 0 in a running game after t down events.
spawnedAt(t) == playing(state) /\ state.fallingBlockY = 0 /\ ticks = t

\* A down event later than the t-th and no later than the GRID_HEIGHT-th
\* after it has left a block at y = 0: since y only grows between locks, the
\* block that was at y = 0 after t down events has been locked.
lockedSince(t) ==
  /\ ticks \in t + 1 .. t + GRID_HEIGHT
  /\ state.fallingBlockY = 0
  /\ state.droppedBlocks # << >>

\* C22: between locks the y of the falling block never decreases and grows by
\* exactly 1 with each down event (key or timer tick), whatever left, right
\* and rotate events come between; and with ticks delivered as long as they
\* can be, a block at y = 0 is locked no later than by the GRID_HEIGHT-th down
\* event that follows.
BoundedTimeToLock ==
  /\ [][fallsByOne]_vars
  /\ \A t \in 0 .. MaxTicks - GRID_HEIGHT : spawnedAt(t) ~> lockedSince(t)

\* C22 witness: the bar fell through all rows of the empty grid and was locked
\* in the last one by the GRID_HEIGHT-th down event.
BoundedTimeToLockWitness ==
  /\ ticks = GRID_HEIGHT
  /\ Len(state.droppedBlocks) = 1
  /\ state.fallingBlockY = 0
  /\ state.droppedBlocks # << >>
  /\ LET last == state.droppedBlocks[Len(state.droppedBlocks)]
     IN  last.y = GRID_HEIGHT - 1 /\ last.shape = blockShape[1 + 1]

\* C23: a running game left to the timer alone ends after finitely many
\* ticks, whatever shapes of the catalog are drawn: from each of the
\* unattended positions the game is over by the MaxUnattendedTicks-th tick.
UnattendedGameEnds == ticks = MaxUnattendedTicks => state.gameEnd

\* C23 witness: a game left unattended went on for more than two falls of
\* the whole grid, removed rows on the way, and ended.
UnattendedGameEndsWitness ==
  /\ state.gameEnd
  /\ ticks > 2 * GRID_HEIGHT
  /\ state.removedRows > brim(0).removedRows

====
